---- MODULE Spec2Model ----
(***************************************************************************)
(* Drift-bottle plugin: the local bottle store (main.py), the upload       *)
(* tracker (uploaded_bottles_tracker.py), the cloud store client           *)
(* (cloud_bottle_storage.py) and the sync loop that bridges them.          *)
(***************************************************************************)
EXTENDS Integers, Sequences, FiniteSets, TLC

\* ------------------------------------------------------------------ bounds
\* Largest number of bottles the store holds in a run.
MaxBottles == 3
\* Last second of the wall clock (timestamps have one-second resolution).
MaxTime == 1
\* Largest number of bottles in the store while the sync task is followed.
MaxSyncBottles == 3
\* Largest number of failed pushes the network inflicts before it recovers.
MaxFailures == 2
\* Number of throw_bottle coroutines alive on the event loop at once.
NumTasks == 2
\* Largest number of entries in one sender's list of picked bottles.
MaxPicked == 2
\* Largest number of ClientSession objects get_session creates in a run.
MaxSessions == 3
\* Number of runs of _migrate_data that are followed.
MaxMigrations == 2

\* --------------------------------------------------------- program constants
\* main.py:104  self._get_config_value("max_text_length", 500)
DefaultMaxTextLength == 500
\* main.py:105  self._get_config_value("max_images", 1)
DefaultMaxImages == 1
\* cloud_bottle_storage.py:58  max_retries = 3
max_retries == 3

VARIABLES
    \* DriftBottlePlugin: data/drift_bottles.json and the plugin's config
    active,        \* bottles["active"]: list of bottle records
    picked,        \* bottles["picked"]: list of bottle records
    config,        \* AstrBotConfig: key -> <<>> (absent) or <<value>>
    now,           \* wall clock, in seconds
    reply,         \* what the last command yielded to the user
    created,       \* history: the records throw_bottle has stored
    assigned,      \* history: the ids throw_bottle has assigned, in order
    request,       \* history: <<[content, images]>> of the last command if it
                   \* was throw_bottle, <<>> otherwise
    returned,      \* history: the ids pick_bottle has delivered, in order
    asked,         \* history: <<bottle_id>> of the last command if it was
                   \* picked_bottle (bottle_id is <<>> or <<n>>), <<>> otherwise
    \* UploadedBottlesTracker: data/uploaded_bottles.json
    trackerFile,   \* [uploaded_ids, last_upload]
    trackerRet,    \* return value of the last tracker operation
    marked,        \* history: ids mark_as_uploaded has been called with
    \* CloudBottleStorage
    cloudPc,       \* position of the running cloud call
    reqLog,        \* requests the running / last cloud call has sent
    respLog,       \* responses the running / last cloud call has received
    cloudRet,      \* result of the last finished cloud call
    rateLimit,     \* _rate_limit_remaining / _rate_limit_reset per endpoint
    session,       \* self.session: 0 (None) or n, the n-th session created
    connectorClosed, \* self.connector.closed, the connector every session shares
    sessionsMade,  \* number of ClientSession objects get_session has created
    closePc,       \* position of close(): "idle" or "closing" (in its await)
    callers,       \* task -> <<>> or <<what its last get_session found and returned>>
    \* sync loop
    syncPc,        \* position of the sync task
    batch,         \* bottles of the current cycle still to push
    okPushes,      \* history: id -> number of pushes the cloud accepted
    failures,      \* failed pushes so far
    \* commands as coroutines on the event loop
    coro,          \* task -> [pc, new_id, msg, bottles] of its throw_bottle
    \* CloudBottleStorage._make_request
    mr,            \* the running / last call of _make_request
    \* BottleStorage (bottle_storage.py)
    userList,      \* self.data["user_list"]: sender id -> list of bottles
    apiRet,        \* return value of the last BottleStorage operation
    pickedBy,      \* history: sender id -> the bottles its successful picks returned
    \* data/drift_bottles.json before and after _migrate_data
    fileKind,      \* what the file holds: "dict" (active and picked, kept in the
                   \* variables of those names), "list" (old format) or "other"
    oldList,       \* the bottles of a file in the old list format
    migrated,      \* number of runs of _migrate_data so far
    original       \* history: [kind, list] of the file before the first run

storeVars   == <<active, picked, config, reply, created, assigned, request, returned, asked>>
trackerVars == <<trackerFile, trackerRet, marked>>
sessionVars == <<session, connectorClosed, sessionsMade, closePc, callers>>
cloudVars   == <<cloudPc, reqLog, respLog, cloudRet, rateLimit, sessionVars>>
syncVars    == <<syncPc, batch, okPushes, failures>>
coVars      == <<coro>>
retryVars   == <<mr>>
apiVars     == <<userList, apiRet, pickedBy>>
migrateVars == <<fileKind, oldList, migrated, original>>
vars        == <<storeVars, now, trackerVars, cloudVars, syncVars, coVars, retryVars, apiVars,
                 migrateVars>>

\* ----------------------------------------------------------------- helpers
Range(s) == {s[i] : i \in DOMAIN s}

Min(a, b) == IF a <= b THEN a ELSE b

\* Python's max() over a non-empty collection of integers.
max(S) == CHOOSE m \in S : \A x \in S : x <= m

\* ListRemove as a remove() that was left out: the list is returned whole.
ListRemoveNothing(s, x) == s

\* ListRemove as a pop(): the last element goes, whichever was asked for.
ListRemoveLast(s, x) == SubSeq(s, 1, Len(s) - 1)

\* list.remove(x): drops the first element equal to x.
ListRemove(s, x) ==
    LET i == CHOOSE k \in DOMAIN s : s[k] = x /\ \A j \in 1..(k - 1) : s[j] # x
    IN  SubSeq(s, 1, i - 1) \o SubSeq(s, i + 1, Len(s))

\* ------------------------------------------------------------------ inputs
\* Inbound messages: the text, the images collected from it, and the
\* (sender name, sender id) of the event.  Texts of 2 and 3 characters and
\* lists of 0, 1 and 2 images sit on both sides of the configured limits.
\* The tasks (coroutines) alive on the event loop at once.
Tasks == 1..NumTasks
Users == {[name |-> "alice", id |-> "u1"], [name |-> "bob", id |-> "u2"]}
Messages ==
    { [content |-> "ab",  images |-> <<>>,               user |-> [name |-> "alice", id |-> "u1"]],
      [content |-> "abc", images |-> <<"img1">>,         user |-> [name |-> "bob",   id |-> "u2"]],
      [content |-> "ab",  images |-> <<"img1", "img2">>, user |-> [name |-> "bob",   id |-> "u2"]] }
\* A configured value: what the key holds and whether int() accepts it.
Val(v) == <<[parses |-> TRUE, val |-> v]>>
Invalid == <<[parses |-> FALSE, val |-> 0]>>
\* Plugin configurations: a key is absent (<<>>), holds an integer, or holds
\* something int() rejects.
StoreConfigs ==
    { [ max_text_length |-> Val(2), max_images |-> Val(1),
        cloud_sync_enabled |-> TRUE, cloud_sync_batch_size |-> 1 ],
      [ max_text_length |-> <<>>, max_images |-> Invalid,
        cloud_sync_enabled |-> TRUE, cloud_sync_batch_size |-> 1 ] }
\* The sync settings: enabled with batches of 1 or 2, or disabled.
SyncConfigs ==
    { [ max_text_length |-> Val(2), max_images |-> Val(1),
        cloud_sync_enabled |-> e, cloud_sync_batch_size |-> n ] :
        e \in BOOLEAN, n \in {1, 2} } \
    { [ max_text_length |-> Val(2), max_images |-> Val(1),
        cloud_sync_enabled |-> FALSE, cloud_sync_batch_size |-> 1 ] }
Configs == StoreConfigs \cup SyncConfigs

\* ------------------------------------------------------------ local store
\* _get_config_value: int(config.get(key, default)); default on ValueError.
_get_config_value(key, default_value) ==
    IF config[key] = <<>> THEN default_value
    ELSE IF config[key][1].parses THEN config[key][1].val
    ELSE default_value

\* _check_content_limits with the limits themselves refused (>= for >).
_check_content_limits_exclusive(content, images) ==
    LET max_text_length == _get_config_value("max_text_length", DefaultMaxTextLength)
        max_images      == _get_config_value("max_images", DefaultMaxImages)
    IN  IF Len(content) >= max_text_length THEN <<FALSE, "text_too_long">>
        ELSE IF Len(images) >= max_images THEN <<FALSE, "too_many_images">>
        ELSE <<TRUE, "">>

\* _check_content_limits: <<passed, error kind>>.
_check_content_limits(content, images) ==
    LET max_text_length == _get_config_value("max_text_length", DefaultMaxTextLength)
        max_images      == _get_config_value("max_images", DefaultMaxImages)
    IN  IF Len(content) > max_text_length THEN <<FALSE, "text_too_long">>
        ELSE IF Len(images) > max_images THEN <<FALSE, "too_many_images">>
        ELSE <<TRUE, "">>

\* _load_bottles: the file's contents when it reads as a dict holding both
\* lists, the empty default otherwise.
_load_bottles(readable) ==
    IF readable THEN [active |-> active, picked |-> picked]
    ELSE [active |-> <<>>, picked |-> <<>>]

\* NewId with the picked list forgotten: max-plus-one over active only.
NewIdActiveOnly(bottles) ==
    IF bottles.active # <<>>
    THEN max({bottles.active[i].id : i \in DOMAIN bottles.active}) + 1
    ELSE 1

\* NewId as a count: one more than the number of active bottles.
NewIdByCount(bottles) == Len(bottles.active) + 1

\* Identifier of the next bottle (throw_bottle, "生成新的漂流瓶ID").
NewId(bottles) ==
    LET n0 == 1
        n1 == IF bottles.active # <<>>
              THEN max({bottles.active[i].id : i \in DOMAIN bottles.active}) + 1
              ELSE n0
    IN  IF bottles.picked # <<>>
        THEN max({n1, max({bottles.picked[i].id : i \in DOMAIN bottles.picked}) + 1})
        ELSE n1

\* images[:max_images]
Truncate(images, n) ==
    IF n >= 0 THEN SubSeq(images, 1, Min(n, Len(images)))
    ELSE SubSeq(images, 1, IF Len(images) + n > 0 THEN Len(images) + n ELSE 0)

Reply(op, kind, bottles) == [op |-> op, kind |-> kind, bottles |-> bottles]

\* throw_bottle from the loaded store on: the id, the record, the append and
\* _save_bottles, which writes the loaded lists back with the new bottle.
throw_bottle_save(bottles, content, images, user, t) ==
    LET new_id == NewId(bottles)
        bottle == [ id        |-> new_id,
                    content   |-> content,
                    images    |-> Truncate(images,
                                    _get_config_value("max_images", DefaultMaxImages)),
                    sender    |-> user.name,
                    sender_id |-> user.id,
                    timestamp |-> t ]
    IN  /\ Len(active) + Len(picked) < MaxBottles
        /\ active' = Append(bottles.active, bottle)
        /\ picked' = bottles.picked
        /\ now' = t
        /\ reply' = Reply("throw", "ok", <<bottle>>)
        /\ created' = created \cup {bottle}
        /\ assigned' = Append(assigned, new_id)
        /\ request' = <<[content |-> content, images |-> images]>>
        /\ asked' = <<>>
        /\ UNCHANGED <<config, returned>>

\* 扔漂流瓶
throw_bottle(content, images, user, t) ==
    LET check == _check_content_limits(content, images)
    IN  IF ~check[1]
        THEN /\ reply' = Reply("throw", check[2], <<>>)
             /\ request' = <<[content |-> content, images |-> images]>>
             /\ asked' = <<>>
             /\ UNCHANGED <<active, picked, config, now, created, assigned, returned>>
        ELSE throw_bottle_save(_load_bottles(TRUE), content, images, user, t)

\* PickedRecord with the pick re-stamping the bottle.
PickedRecordStamped(bottle) == [bottle EXCEPT !.timestamp = bottle.timestamp + 1]

\* The record pick_bottle appends to the picked list.
PickedRecord(bottle) == bottle

\* pick_bottle that refills an empty sea with the picked bottles, as the cloud
\* service's reset does.
pick_bottle_recycle(i) ==
    LET bottles == _load_bottles(TRUE)
    IN  IF bottles.active = <<>>
        THEN /\ reply' = Reply("pick", "empty", <<>>)
             /\ active' = bottles.picked
             /\ picked' = <<>>
             /\ request' = <<>>
             /\ asked' = <<>>
             /\ UNCHANGED <<config, now, created, assigned, returned>>
        ELSE /\ i \in DOMAIN bottles.active
             /\ LET bottle == bottles.active[i]
                IN  /\ active' = ListRemove(bottles.active, bottle)
                    /\ picked' = Append(bottles.picked, bottle)
                    /\ reply' = Reply("pick", "ok", <<bottle>>)
                    /\ returned' = Append(returned, bottle.id)
             /\ request' = <<>>
             /\ asked' = <<>>
             /\ UNCHANGED <<config, now, created, assigned>>

\* 捡漂流瓶: i is the index random.choice draws.
pick_bottle(i) ==
    LET bottles == _load_bottles(TRUE)
    IN  IF bottles.active = <<>>
        THEN /\ reply' = Reply("pick", "empty", <<>>)
             /\ request' = <<>>
             /\ asked' = <<>>
             /\ UNCHANGED <<active, picked, config, now, created, assigned, returned>>
        ELSE /\ i \in DOMAIN bottles.active
             /\ LET bottle == bottles.active[i]
                IN  /\ active' = ListRemove(bottles.active, bottle)
                    /\ picked' = Append(bottles.picked, PickedRecord(bottle))
                    /\ reply' = Reply("pick", "ok", <<bottle>>)
                    /\ returned' = Append(returned, bottle.id)
             /\ request' = <<>>
             /\ asked' = <<>>
             /\ UNCHANGED <<config, now, created, assigned>>

\* picked_bottle looking the id up among all stored bottles, the active ones
\* included.
picked_bottle_any_list(bottle_id, i) ==
    LET bottles == _load_bottles(TRUE)
        all     == bottles.picked \o bottles.active
    IN  /\ IF bottles.picked = <<>>
           THEN reply' = Reply("picked", "none_picked", <<>>)
           ELSE IF bottle_id # <<>>
           THEN LET hits == {k \in DOMAIN all : all[k].id = bottle_id[1]}
                IN  IF hits = {}
                    THEN reply' = Reply("picked", "not_found", <<>>)
                    ELSE reply' = Reply("picked", "ok",
                                        <<all[CHOOSE k \in hits : \A j \in hits : k <= j]>>)
           ELSE /\ i \in DOMAIN bottles.picked
                /\ reply' = Reply("picked", "ok", <<bottles.picked[i]>>)
        /\ request' = <<>>
        /\ asked' = <<bottle_id>>
        /\ UNCHANGED <<active, picked, config, now, created, assigned, returned>>

\* 被捡起的漂流瓶: bottle_id is <<>> (None) or <<n>>; i is the random index.
picked_bottle(bottle_id, i) ==
    LET bottles == _load_bottles(TRUE)
    IN  /\ IF bottles.picked = <<>>
           THEN reply' = Reply("picked", "none_picked", <<>>)
           ELSE IF bottle_id # <<>>
           THEN LET hits == {k \in DOMAIN bottles.picked :
                                bottles.picked[k].id = bottle_id[1]}
                IN  IF hits = {}
                    THEN reply' = Reply("picked", "not_found", <<>>)
                    ELSE reply' = Reply("picked", "ok",
                                        <<bottles.picked[CHOOSE k \in hits :
                                                          \A j \in hits : k <= j]>>)
           ELSE /\ i \in DOMAIN bottles.picked
                /\ reply' = Reply("picked", "ok", <<bottles.picked[i]>>)
        /\ request' = <<>>
        /\ asked' = <<bottle_id>>
        /\ UNCHANGED <<active, picked, config, now, created, assigned, returned>>

\* bottle_count reporting every stored bottle as unpicked.
bottle_count_total ==
    LET bottles == _load_bottles(TRUE)
    IN  /\ reply' = Reply("count", "ok",
                          <<Len(bottles.active) + Len(bottles.picked), Len(bottles.picked)>>)
        /\ request' = <<>>
        /\ asked' = <<>>
        /\ UNCHANGED <<active, picked, config, now, created, assigned, returned>>

\* 未被捡起的漂流瓶
bottle_count ==
    LET bottles == _load_bottles(TRUE)
    IN  /\ reply' = Reply("count", "ok", <<Len(bottles.active), Len(bottles.picked)>>)
        /\ request' = <<>>
        /\ asked' = <<>>
        /\ UNCHANGED <<active, picked, config, now, created, assigned, returned>>

\* sorted(..., key=timestamp, reverse=True): stable, newest first.
RECURSIVE SortedByTimeDesc(_)
SortedByTimeDesc(s) ==
    IF s = <<>> THEN <<>>
    ELSE LET i == CHOOSE k \in DOMAIN s :
                     /\ \A j \in DOMAIN s : s[j].timestamp <= s[k].timestamp
                     /\ \A j \in 1..(k - 1) : s[j].timestamp < s[k].timestamp
         IN  <<s[i]>> \o SortedByTimeDesc(SubSeq(s, 1, i - 1) \o SubSeq(s, i + 1, Len(s)))

\* 被捡起的漂流瓶列表
list_picked_bottles ==
    LET bottles == _load_bottles(TRUE)
    IN  /\ IF bottles.picked = <<>>
           THEN reply' = Reply("list", "none_picked", <<>>)
           ELSE reply' = Reply("list", "ok", SortedByTimeDesc(bottles.picked))
        /\ request' = <<>>
        /\ asked' = <<>>
        /\ UNCHANGED <<active, picked, config, now, created, assigned, returned>>

NoReply == Reply("none", "none", <<>>)

StoreInit ==
    /\ active = <<>>
    /\ picked = <<>>
    /\ config \in StoreConfigs
    /\ now = 0
    /\ reply = NoReply
    /\ created = {}
    /\ assigned = <<>>
    /\ request = <<>>
    /\ returned = <<>>
    /\ asked = <<>>

\* --------------------------------------------------------- upload tracker
\* Bottle ids the tracker is asked about.
TrackerIds == 1..MaxBottles

\* What _ensure_data_file writes, and what _load_data falls back to.
EmptyTrackerData == [uploaded_ids |-> <<>>, last_upload |-> <<>>]

\* _load_data: the file's contents, or the empty default when the read or
\* the JSON decoding raises.
_load_data(readable) == IF readable THEN trackerFile ELSE EmptyTrackerData

\* _save_data: the file after the write; an exception is logged and dropped.
_save_data(data, writable) == IF writable THEN data ELSE trackerFile

\* mark_as_uploaded without the membership test: every call appends.
mark_as_uploaded_always(bottle_id, t, readable) ==
    LET data == _load_data(readable)
    IN  _save_data([ uploaded_ids |-> Append(data.uploaded_ids, bottle_id),
                     last_upload  |-> <<t>> ], TRUE)

\* mark_as_uploaded: the file after the call made at time t.
mark_as_uploaded(bottle_id, t, readable) ==
    LET data == _load_data(readable)
    IN  IF bottle_id \notin Range(data.uploaded_ids)
        THEN _save_data([ uploaded_ids |-> Append(data.uploaded_ids, bottle_id),
                          last_upload  |-> <<t>> ], TRUE)
        ELSE trackerFile

\* is_uploaded reading a key the file does not hold: never a match.
is_uploaded_never(bottle_id, readable) ==
    bottle_id \in Range(SubSeq(_load_data(readable).uploaded_ids, 1, 0))

\* is_uploaded with the test inverted.
is_uploaded_inverted(bottle_id, readable) ==
    bottle_id \notin Range(_load_data(readable).uploaded_ids)

\* is_uploaded
is_uploaded(bottle_id, readable) ==
    bottle_id \in Range(_load_data(readable).uploaded_ids)

\* get_last_upload_time
get_last_upload_time(readable) == _load_data(readable).last_upload

\* get_uploaded_count
get_uploaded_count(readable) == Len(_load_data(readable).uploaded_ids)

TrackerRet(op, value) == [op |-> op, value |-> value]

TrackerInit ==
    /\ trackerFile = EmptyTrackerData
    /\ trackerRet = TrackerRet("none", <<>>)
    /\ marked = {}

\* Outcomes of reading the tracker file: the read succeeds; under load
\* faults it may also raise.
Reads(faulty) == IF faulty THEN BOOLEAN ELSE {TRUE}

DoMark(faulty) ==
    \E bottle_id \in TrackerIds, t \in now..Min(now + 1, MaxTime),
       readable \in Reads(faulty) :
        /\ trackerFile' = mark_as_uploaded(bottle_id, t, readable)
        /\ trackerRet' = TrackerRet("mark_as_uploaded", <<bottle_id>>)
        /\ marked' = marked \cup {bottle_id}
        /\ now' = t

DoIsUploaded(faulty) ==
    \E bottle_id \in TrackerIds, readable \in Reads(faulty) :
        /\ trackerRet' = TrackerRet("is_uploaded",
                                    <<bottle_id, is_uploaded(bottle_id, readable)>>)
        /\ UNCHANGED <<trackerFile, marked, now>>

DoLastUploadTime(faulty) ==
    \E readable \in Reads(faulty) :
        /\ trackerRet' = TrackerRet("get_last_upload_time",
                                    get_last_upload_time(readable))
        /\ UNCHANGED <<trackerFile, marked, now>>

DoUploadedCount(faulty) ==
    \E readable \in Reads(faulty) :
        /\ trackerRet' = TrackerRet("get_uploaded_count",
                                    <<get_uploaded_count(readable)>>)
        /\ UNCHANGED <<trackerFile, marked, now>>

\* ------------------------------------------------------ cloud store client
Endpoints == {"add_bottle", "pick_bottle", "reset_bottle"}

\* X-RateLimit-Remaining / X-RateLimit-Reset as the service sends them:
\* absent (<<>>) or a number.
HeaderSets ==
    { [remaining |-> <<>>,  reset |-> <<>>],
      [remaining |-> <<0>>, reset |-> <<60>>],
      [remaining |-> <<5>>, reset |-> <<>>] }

\* What a request comes back with: an HTTP response, or a network error
\* (aiohttp.ClientError) in place of one.
NetworkError ==
    [net |-> "error", status |-> 0, headers |-> [remaining |-> <<>>, reset |-> <<>>],
     retry_after |-> <<>>, body |-> "not_json"]

HttpResponses ==
    { r \in [ net : {"ok"}, status : {200, 403, 404, 429, 500}, headers : HeaderSets,
              retry_after : {<<>>, <<5>>}, body : {"json", "no_id", "not_json"} ] :
        /\ r.status # 429 => r.retry_after = <<>>
        /\ r.status # 200 => r.body = "not_json" }

Responses == HttpResponses \cup {NetworkError}

\* Result of a cloud call.
Ret(kind, msg, is_reset) == [kind |-> kind, msg |-> msg, is_reset |-> is_reset]

\* _handle_rate_limit_headers, the bookkeeping: the per-endpoint values after
\* the response's headers have been recorded.
RateLimitAfter(response, endpoint) ==
    [ remaining |-> IF response.headers.remaining # <<>>
                    THEN [rateLimit.remaining EXCEPT ![endpoint] = response.headers.remaining]
                    ELSE rateLimit.remaining,
      reset     |-> IF response.headers.reset # <<>>
                    THEN [rateLimit.reset EXCEPT ![endpoint] = response.headers.reset]
                    ELSE rateLimit.reset ]

\* _handle_rate_limit_headers without the branch for a missing Retry-After.
_handle_rate_limit_headers_no_else(response, endpoint) ==
    IF response.status = 429 /\ response.retry_after # <<>>
    THEN IF endpoint = "add_bottle" THEN <<Ret("error", "add_wait", FALSE)>>
         ELSE IF endpoint = "pick_bottle" THEN <<Ret("error", "pick_wait", FALSE)>>
         ELSE <<Ret("error", "op_wait", FALSE)>>
    ELSE <<>>

\* _handle_rate_limit_headers, the return value: <<>> for None, or the
\* {"error": ...} result in a one-element tuple.
_handle_rate_limit_headers(response, endpoint) ==
    IF response.status = 429
    THEN IF response.retry_after # <<>>
         THEN IF endpoint = "add_bottle" THEN <<Ret("error", "add_wait", FALSE)>>
              ELSE IF endpoint = "pick_bottle" THEN <<Ret("error", "pick_wait", FALSE)>>
              ELSE <<Ret("error", "op_wait", FALSE)>>
         ELSE <<Ret("error", "op_later", FALSE)>>
    ELSE <<>>

\* add_bottle: what the call returns (or raises) for the response to its POST.
add_bottle(response) ==
    IF response.net = "error" THEN Ret("raise", "client_error", FALSE)
    ELSE LET rate_limit_result == _handle_rate_limit_headers(response, "add_bottle")
         IN  IF rate_limit_result # <<>> THEN rate_limit_result[1]
             ELSE IF response.status = 200
                  THEN IF response.body = "json" THEN Ret("id", "", FALSE)
                       ELSE IF response.body = "no_id" THEN Ret("none", "", FALSE)
                       ELSE Ret("raise", "bad_json", FALSE)
             ELSE IF response.status = 403 THEN Ret("error", "blacklisted", FALSE)
             ELSE Ret("none", "", FALSE)

\* pick_random_bottle with the reset tried after every 404, also the one that
\* answers the pick made after a reset.
pick_random_bottle_reset_again(response, phase) ==
    LET endpoint == IF phase = "pick_reset" THEN "reset_bottle" ELSE "pick_bottle"
        done(r)  == [next |-> "", ret |-> r]
    IN  IF response.net = "error" THEN done(Ret("raise", "client_error", FALSE))
        ELSE LET rate_limit_result == _handle_rate_limit_headers(response, endpoint)
             IN  IF rate_limit_result # <<>> THEN done(rate_limit_result[1])
                 ELSE IF phase = "pick_reset"
                 THEN IF response.status = 200
                      THEN [next |-> "pick_retry", ret |-> Ret("pending", "", FALSE)]
                      ELSE done(Ret("none", "", FALSE))
                 ELSE IF response.status = 200
                      THEN IF response.body = "not_json"
                           THEN done(Ret("raise", "bad_json", FALSE))
                           ELSE done(Ret("bottle", "", phase = "pick_retry"))
                 ELSE IF response.status = 403
                      THEN done(Ret("error", "blacklisted", FALSE))
                 ELSE IF response.status = 404
                      THEN [next |-> "pick_reset", ret |-> Ret("pending", "", FALSE)]
                 ELSE done(Ret("none", "", FALSE))

\* pick_random_bottle, one response at a time.  phase is "pick_get" (first
\* pick), "pick_reset" (reset) or "pick_retry" (pick after reset); next is the
\* request sent in answer ("" when the call is over).
pick_random_bottle(response, phase) ==
    LET endpoint == IF phase = "pick_reset" THEN "reset_bottle" ELSE "pick_bottle"
        done(r)  == [next |-> "", ret |-> r]
    IN  IF response.net = "error" THEN done(Ret("raise", "client_error", FALSE))
        ELSE LET rate_limit_result == _handle_rate_limit_headers(response, endpoint)
             IN  IF rate_limit_result # <<>> THEN done(rate_limit_result[1])
                 ELSE IF phase = "pick_reset"
                 THEN IF response.status = 200
                      THEN [next |-> "pick_retry", ret |-> Ret("pending", "", FALSE)]
                      ELSE done(Ret("none", "", FALSE))
                 ELSE IF response.status = 200
                      THEN IF response.body = "not_json"
                           THEN done(Ret("raise", "bad_json", FALSE))
                           ELSE done(Ret("bottle", "", phase = "pick_retry"))
                 ELSE IF response.status = 403
                      THEN done(Ret("error", "blacklisted", FALSE))
                 ELSE IF response.status = 404 /\ phase = "pick_get"
                      THEN [next |-> "pick_reset", ret |-> Ret("pending", "", FALSE)]
                 ELSE done(Ret("none", "", FALSE))

\* get_bottle_counts: the counts of a 200 response, (0, 0) otherwise.
get_bottle_counts(response) ==
    IF response.net = "ok" /\ response.status = 200 /\ response.body # "not_json"
    THEN Ret("counts", "", FALSE)
    ELSE Ret("zeros", "", FALSE)

\* The request each position waits on.
RequestOf(pc) ==
    IF pc = "add_post" THEN "POST /api/bottles"
    ELSE IF pc = "pick_reset" THEN "POST /api/bottles/reset"
    ELSE IF pc = "count_get" THEN "GET /api/bottles/count"
    ELSE "GET /api/bottles/random"

LogEntry(response, limited) == [status |-> response.status, limited |-> limited]

CloudInit ==
    /\ cloudPc = "idle"
    /\ reqLog = <<>>
    /\ respLog = <<>>
    /\ cloudRet = Ret("none", "", FALSE)
    /\ rateLimit = [ remaining |-> [e \in Endpoints |-> <<>>],
                     reset     |-> [e \in Endpoints |-> <<>>] ]
    /\ session = 0
    /\ connectorClosed = FALSE
    /\ sessionsMade = 0
    /\ closePc = "idle"
    /\ callers = [k \in Tasks |-> <<>>]

\* A call starts: its first request goes out.
StartCall(pc) ==
    /\ cloudPc = "idle"
    /\ cloudPc' = pc
    /\ reqLog' = <<RequestOf(pc)>>
    /\ respLog' = <<>>
    /\ cloudRet' = Ret("pending", "", FALSE)
    /\ UNCHANGED rateLimit

AddStart == StartCall("add_post") /\ UNCHANGED sessionVars

AddResponse ==
    \E response \in Responses :
        /\ cloudPc = "add_post"
        /\ respLog' = Append(respLog, LogEntry(response,
               response.net = "ok"
               /\ _handle_rate_limit_headers(response, "add_bottle") # <<>>))
        /\ rateLimit' = IF response.net = "ok"
                        THEN RateLimitAfter(response, "add_bottle") ELSE rateLimit
        /\ cloudRet' = add_bottle(response)
        /\ cloudPc' = "idle"
        /\ UNCHANGED <<reqLog, sessionVars>>

PickStart == StartCall("pick_get") /\ UNCHANGED sessionVars

PickResponse ==
    \E response \in Responses :
        /\ cloudPc \in {"pick_get", "pick_reset", "pick_retry"}
        /\ LET endpoint == IF cloudPc = "pick_reset" THEN "reset_bottle" ELSE "pick_bottle"
               out      == pick_random_bottle(response, cloudPc)
           IN  /\ respLog' = Append(respLog, LogEntry(response,
                      response.net = "ok"
                      /\ _handle_rate_limit_headers(response, endpoint) # <<>>))
               /\ rateLimit' = IF response.net = "ok"
                               THEN RateLimitAfter(response, endpoint) ELSE rateLimit
               /\ cloudRet' = out.ret
               /\ IF out.next = ""
                  THEN cloudPc' = "idle" /\ UNCHANGED reqLog
                  ELSE cloudPc' = out.next /\ reqLog' = Append(reqLog, RequestOf(out.next))
        /\ UNCHANGED sessionVars

\* session.closed: aiohttp's ClientSession.closed is "the connector is None or
\* closed", and every session get_session creates is built on self.connector.
SessionClosed == connectorClosed

\* get_session, called by task k.  The lock is free whenever a task is
\* scheduled (the body holds no await that can be reached: the inner close()
\* needs an open session where the outer test has found none), so the body
\* runs in one step: a new ClientSession on self.connector when self.session
\* is None or closed, and self.session returned.
get_session(k) ==
    LET open   == session # 0 /\ ~SessionClosed
        create == ~open
    IN  /\ create => sessionsMade < MaxSessions
        /\ session' = IF create THEN sessionsMade + 1 ELSE session
        /\ sessionsMade' = IF create THEN sessionsMade + 1 ELSE sessionsMade
        /\ callers' = [callers EXCEPT ![k] =
                          <<[ found    |-> session,
                              open     |-> open,
                              returned |-> session',
                              closed   |-> SessionClosed ]>>]
        /\ UNCHANGED <<connectorClosed, closePc>>

CountStart ==
    /\ StartCall("count_get")
    /\ get_session(1)

CountResponse ==
    \E response \in Responses :
        /\ cloudPc = "count_get"
        /\ respLog' = Append(respLog, LogEntry(response, FALSE))
        /\ cloudRet' = get_bottle_counts(response)
        /\ cloudPc' = "idle"
        /\ UNCHANGED <<reqLog, rateLimit, sessionVars>>

\* close(): an open session is closed, which closes the connector it owns
\* (connector_owner is left at its default), and after the await self.session
\* is set to None.  With no session, or a closed one, close() does nothing.
close ==
    \/ /\ closePc = "idle"
       /\ session # 0
       /\ ~SessionClosed
       /\ connectorClosed' = TRUE
       /\ closePc' = "closing"
       /\ UNCHANGED <<session, sessionsMade, callers>>
    \/ /\ closePc = "closing"
       /\ session' = 0
       /\ closePc' = "idle"
       /\ UNCHANGED <<connectorClosed, sessionsMade, callers>>

Close ==
    /\ cloudPc = "idle"
    /\ close
    /\ UNCHANGED <<cloudPc, reqLog, respLog, cloudRet, rateLimit>>

\* ---------------------------------------------------------------- sync loop
\* The periodic task: each cycle takes the local bottles the tracker does not
\* report as uploaded, at most cloud_sync_batch_size of them, pushes them one
\* by one through the cloud client's add_bottle and marks each accepted bottle
\* as uploaded.

\* ConfigManager.is_cloud_sync_enabled
is_cloud_sync_enabled == config.cloud_sync_enabled

\* ConfigManager.get_cloud_sync_batch_size
get_cloud_sync_batch_size == config.cloud_sync_batch_size

\* The local bottles still to upload, in store order.
Unuploaded ==
    SelectSeq(active \o picked, LAMBDA b : ~is_uploaded(b.id, TRUE))

\* A push succeeded when add_bottle returned the new bottle's id.
PushSucceeded(ret) == ret.kind = "id"

SyncInit ==
    /\ syncPc = "sleep"
    /\ batch = <<>>
    /\ okPushes = [i \in TrackerIds |-> 0]
    /\ failures = 0

\* A cycle starts: the batch is drawn.
sync_cycle ==
    /\ syncPc = "sleep"
    /\ is_cloud_sync_enabled
    /\ LET pending == Unuploaded
           chosen  == SubSeq(pending, 1, Min(get_cloud_sync_batch_size, Len(pending)))
       IN  /\ batch' = chosen
           /\ syncPc' = IF chosen = <<>> THEN "sleep" ELSE "push"
    /\ UNCHANGED <<okPushes, failures>>

\* The next bottle of the batch is pushed; an accepted bottle is marked.
sync_push(response, t) ==
    /\ syncPc = "push"
    /\ LET bottle == Head(batch)
           ret    == add_bottle(response)
       IN  /\ ~PushSucceeded(ret) => failures < MaxFailures
           /\ failures' = IF PushSucceeded(ret) THEN failures ELSE failures + 1
           /\ rateLimit' = IF response.net = "ok"
                           THEN RateLimitAfter(response, "add_bottle") ELSE rateLimit
           /\ IF PushSucceeded(ret)
              THEN /\ trackerFile' = mark_as_uploaded(bottle.id, t, TRUE)
                   /\ marked' = marked \cup {bottle.id}
                   /\ okPushes' = [okPushes EXCEPT ![bottle.id] = @ + 1]
              ELSE UNCHANGED <<trackerFile, marked, okPushes>>
           /\ batch' = Tail(batch)
           /\ syncPc' = IF Tail(batch) = <<>> THEN "sleep" ELSE "push"
    /\ now' = t

\* ------------------------------------------------- commands as coroutines
\* The handlers are coroutines of one event loop: a handler runs alone from
\* one suspension point (await, yield) to the next.

\* throw_bottle with an await between _load_bottles and _save_bottles.
throw_bottle_suspends_somewhere == TRUE

\* Whether throw_bottle can be suspended after _load_bottles and before
\* _save_bottles: the lines between hold no await and no yield.
throw_bottle_suspends_before_save == FALSE

CoState(pc, new_id, msg, bottles) ==
    [pc |-> pc, new_id |-> new_id, msg |-> msg, bottles |-> bottles]

CoInit == coro = [k \in Tasks |-> CoState("idle", <<>>, <<>>, <<>>)]

\* The id the command has just reported to its user, if it stored a bottle.
StoredId == IF reply'.kind = "ok" THEN <<reply'.bottles[1].id>> ELSE <<>>

\* Task k starts throw_bottle on message m and runs to its first suspension.
throw_bottle_start(k, m, t) ==
    /\ coro[k].pc = "idle"
    /\ IF ~_check_content_limits(m.content, m.images)[1]
          \/ ~throw_bottle_suspends_before_save
       THEN /\ throw_bottle(m.content, m.images, m.user, t)
            /\ coro' = [coro EXCEPT ![k] = CoState("yielded", StoredId, <<>>, <<>>)]
       ELSE /\ coro' = [coro EXCEPT ![k] =
                           CoState("loaded", <<>>, <<m>>, <<_load_bottles(TRUE)>>)]
            /\ UNCHANGED <<storeVars, now>>

\* Task k is resumed: after the yield the generator ends; a task suspended
\* before the save goes on with the store it loaded.
throw_bottle_resume(k, t) ==
    /\ coro[k].pc \in {"loaded", "yielded"}
    /\ IF coro[k].pc = "loaded"
       THEN LET m == coro[k].msg[1]
            IN  /\ throw_bottle_save(coro[k].bottles[1], m.content, m.images, m.user, t)
                /\ coro' = [coro EXCEPT ![k] = CoState("yielded", StoredId, <<>>, <<>>)]
       ELSE /\ coro' = [coro EXCEPT ![k] = CoState("idle", <<>>, <<>>, <<>>)]
            /\ UNCHANGED <<storeVars, now>>

\* ----------------------------------------------------------- _make_request
\* What an attempt ends with: a response of any status, or an exception
\* (connection refused, timeout, broken payload).
Exceptions == {"ClientConnectorError", "TimeoutError", "ClientPayloadError"}
Outcomes ==
    {[ok |-> TRUE, status |-> n, exc |-> ""] : n \in {200, 403, 404, 429, 500}}
    \cup {[ok |-> FALSE, status |-> 0, exc |-> e] : e \in Exceptions}

\* The frame of _make_request: position, retry_count, last_exception, the
\* outcomes of its attempts so far, and what it returned or raised.
RetryState(pc, retry_count, last_exception, attempts, result) ==
    [ pc |-> pc, retry_count |-> retry_count, last_exception |-> last_exception,
      attempts |-> attempts, result |-> result ]

RetryInit == mr = RetryState("idle", 0, <<>>, <<>>, <<>>)

\* _make_request is called: retry_count = 0, last_exception = None.
_make_request_call == RetryState("try", 0, <<>>, <<>>, <<>>)

\* _make_request with the loop test off by one (<= for <).
_make_request_one_more(st, outcome) ==
    IF outcome.ok
    THEN RetryState("returned", st.retry_count, st.last_exception,
                    Append(st.attempts, outcome), <<outcome>>)
    ELSE LET retry_count == st.retry_count + 1
         IN  IF retry_count <= max_retries
             THEN RetryState("sleep", retry_count, <<outcome>>,
                             Append(st.attempts, outcome), <<>>)
             ELSE RetryState("raised", retry_count, <<outcome>>,
                             Append(st.attempts, outcome), <<outcome>>)

\* One pass of the while loop of _make_request, its attempt ending in outcome:
\* a response is returned at once; an exception is kept, counted, and either
\* slept on or, when retry_count has reached max_retries, raised.
_make_request(st, outcome) ==
    IF outcome.ok
    THEN RetryState("returned", st.retry_count, st.last_exception,
                    Append(st.attempts, outcome), <<outcome>>)
    ELSE LET retry_count == st.retry_count + 1
         IN  IF retry_count < max_retries
             THEN RetryState("sleep", retry_count, <<outcome>>,
                             Append(st.attempts, outcome), <<>>)
             ELSE RetryState("raised", retry_count, <<outcome>>,
                             Append(st.attempts, outcome), <<outcome>>)

\* asyncio.sleep(1) is over: the loop goes round.
_make_request_wake(st) == [st EXCEPT !.pc = "try"]

\* ----------------------------------------------------------- BottleStorage
\* bottle_storage.py: the bottles live behind an HTTP API; the plugin keeps,
\* per sender, the list of what that sender has picked.
Senders == {"u1", "u2"}

\* JSON values the API sends as a body: a bottle object, or a value that is
\* not an object (null).
JsonNull == [kind |-> "null", bottle_id |-> 0, timestamp |-> 0]
ApiBottles ==
    { [kind |-> "object", bottle_id |-> 1, timestamp |-> 1],
      [kind |-> "object", bottle_id |-> 2, timestamp |-> 0] }

\* How a request to the API ends: a 2xx response with a JSON body, a 2xx
\* response whose body is not JSON, an error status, or no response at all.
ApiReply(kind, status, body) == [kind |-> kind, status |-> status, body |-> body]
PickReplies ==
    {ApiReply("json", 200, b) : b \in ApiBottles \cup {JsonNull}}
    \cup {ApiReply("not_json", 200, JsonNull)}
    \cup {ApiReply("status", n, JsonNull) : n \in {404, 500}}
    \cup {ApiReply("no_response", 0, JsonNull)}

\* _make_api_request: the decoded body, or the exception it re-raises.
\* raise_for_status() raises ClientResponseError with the response's status;
\* response.json() on a body that is not JSON raises ContentTypeError, a
\* ClientResponseError too; a connection problem raises another ClientError.
_make_api_request(r) ==
    IF r.kind = "json" THEN [raised |-> "", status |-> r.status, body |-> r.body]
    ELSE IF r.kind \in {"status", "not_json"}
    THEN [raised |-> "ClientResponseError", status |-> r.status, body |-> JsonNull]
    ELSE [raised |-> "ClientError", status |-> 0, body |-> JsonNull]

\* What the last operation was called with and what it gave back: kind is
\* "bottle" (a dict), "empty" ({}), "none" (None), "list", "counts" or "raise".
ApiRet(op, sender_id, bottle_id, api, kind, bottles, counts) ==
    [ op |-> op, sender_id |-> sender_id, bottle_id |-> bottle_id, api |-> api,
      kind |-> kind, bottles |-> bottles, counts |-> counts ]

\* user_list starts empty; a sender without an entry has the empty list here
\* (an entry is created only together with its first element).
ApiInit ==
    /\ userList = [u \in Senders |-> <<>>]
    /\ apiRet = ApiRet("none", "", <<>>, <<>>, "none", <<>>, <<>>)
    /\ pickedBy = [u \in Senders |-> <<>>]

\* An object of the API that holds no "bottle_id" key.
JsonNoId == [kind |-> "object_no_id", bottle_id |-> 0, timestamp |-> 0]

\* Answers to POST /bottles/: the created bottle's id, an object without an
\* id, a body that is no object, no JSON, an error status, or no response.
AddReplies ==
    {ApiReply("json", 200, b) : b \in ApiBottles \cup {JsonNoId, JsonNull}}
    \cup {ApiReply("not_json", 200, JsonNull)}
    \cup {ApiReply("status", n, JsonNull) : n \in {422, 500}}
    \cup {ApiReply("no_response", 0, JsonNull)}

\* BottleStorage.add_bottle that hands on whatever .get("bottle_id") gave,
\* None included (the ValueError left out).
BottleStorage_add_bottle_unchecked(sender_id, r) ==
    LET res == _make_api_request(r)
        ret(kind, n) == ApiRet("add", sender_id, <<>>, <<r>>, kind, <<>>, n)
    IN  /\ apiRet' = IF res.raised = "" /\ res.body.kind = "object"
                     THEN ret("int", <<res.body.bottle_id>>)
                     ELSE IF res.raised = "" /\ res.body.kind = "object_no_id"
                     THEN ret("none", <<>>)
                     ELSE ret("int", <<-1>>)
        /\ UNCHANGED <<userList, pickedBy>>

\* BottleStorage.add_bottle, the API answering with r: the integer returned
\* is in counts.  A missing id raises ValueError and a body that is no dict
\* AttributeError; except Exception turns both, like every exception of
\* _make_api_request, into -1.
BottleStorage_add_bottle(sender_id, r) ==
    LET res == _make_api_request(r)
        ret(kind, n) == ApiRet("add", sender_id, <<>>, <<r>>, kind, <<>>, n)
    IN  /\ apiRet' = IF res.raised = "" /\ res.body.kind = "object"
                     THEN ret("int", <<res.body.bottle_id>>)
                     ELSE ret("int", <<-1>>)
        /\ UNCHANGED <<userList, pickedBy>>

\* BottleStorage.pick_random_bottle, the API answering with r.
BottleStorage_pick_random_bottle(sender_id, r) ==
    LET res == _make_api_request(r)
        ret(kind, bottles) == ApiRet("pick", sender_id, <<>>, <<r>>, kind, bottles, <<>>)
    IN  IF res.raised = ""
        THEN /\ userList' = [userList EXCEPT ![sender_id] = Append(@, res.body)]
             /\ IF res.body.kind = "object"
                THEN /\ apiRet' = ret("bottle", <<res.body>>)
                     /\ pickedBy' = [pickedBy EXCEPT ![sender_id] = Append(@, res.body)]
                ELSE \* .get on a value that is no dict: AttributeError, caught
                     /\ apiRet' = ret("none", <<>>)
                     /\ UNCHANGED pickedBy
        ELSE /\ apiRet' = IF res.raised = "ClientResponseError" /\ res.status = 404
                          THEN ret("empty", <<>>)
                          ELSE ret("none", <<>>)
             /\ UNCHANGED <<userList, pickedBy>>

\* BottleStorage.get_picked_bottle: bottle_id is <<>> (None) or <<n>>; i is
\* the index random.choice draws.  bottle["bottle_id"] on an entry that is no
\* dict raises TypeError.
BottleStorage_get_picked_bottle(sender_id, bottle_id, i) ==
    LET list == userList[sender_id]
        ret(kind, bottles) ==
            ApiRet("get_picked_bottle", sender_id, bottle_id, <<>>, kind, bottles, <<>>)
        hits == {k \in DOMAIN list : list[k].kind # "object" \/ list[k].bottle_id = bottle_id[1]}
        first == CHOOSE k \in hits : \A j \in hits : k <= j
    IN  /\ IF list = <<>> THEN apiRet' = ret("none", <<>>)
           ELSE IF bottle_id # <<>>
           THEN IF hits = {} THEN apiRet' = ret("none", <<>>)
                ELSE IF list[first].kind # "object" THEN apiRet' = ret("raise", <<>>)
                ELSE apiRet' = ret("bottle", <<list[first]>>)
           ELSE /\ i \in DOMAIN list
                /\ apiRet' = IF list[i].kind = "object" THEN ret("bottle", <<list[i]>>)
                             ELSE ret("none", <<>>)
        /\ UNCHANGED <<userList, pickedBy>>

\* Replies to GET /bottles/counts/active: a count, or a failure.
CountReplies ==
    {ApiReply("json", 200, [kind |-> "object", bottle_id |-> 0, timestamp |-> 0]),
     ApiReply("status", 500, JsonNull), ApiReply("no_response", 0, JsonNull)}

\* BottleStorage.get_bottle_counts: (active bottles of the API or -1, length
\* of the sender's own list).
BottleStorage_get_bottle_counts(sender_id, r) ==
    LET res == _make_api_request(r)
        total_active_bottles == IF res.raised = "" THEN 2 ELSE -1
    IN  /\ apiRet' = ApiRet("counts", sender_id, <<>>, <<r>>, "counts", <<>>,
                            <<total_active_bottles, Len(userList[sender_id])>>)
        /\ UNCHANGED <<userList, pickedBy>>

\* BottleStorage.get_picked_bottles: the sender's list, newest first.
\* x["timestamp"] on an entry that is no dict raises TypeError.
BottleStorage_get_picked_bottles(sender_id) ==
    LET list == userList[sender_id]
    IN  /\ apiRet' = IF \E k \in DOMAIN list : list[k].kind # "object"
                     THEN ApiRet("get_picked_bottles", sender_id, <<>>, <<>>,
                                 "raise", <<>>, <<>>)
                     ELSE ApiRet("get_picked_bottles", sender_id, <<>>, <<>>,
                                 "list", SortedByTimeDesc(list), <<>>)
        /\ UNCHANGED <<userList, pickedBy>>

\* --------------------------------------------------------------- migration
\* Bottles found in a data file written by an earlier run.
StoredBottle(n) ==
    [ id |-> n, content |-> "ab", images |-> <<>>,
      sender |-> "alice", sender_id |-> "u1", timestamp |-> 0 ]

\* Lists of such bottles, each at most once.
BottleLists ==
    { s \in UNION {[1..n -> {StoredBottle(k) : k \in 1..MaxBottles}] : n \in 0..MaxBottles} :
        \A i, j \in DOMAIN s : i # j => s[i] # s[j] }

\* Data files _ensure_data_file can find: the old format (a list of bottles),
\* the active/picked format, or JSON of another shape.
DataFiles ==
    {[kind |-> "list", list |-> s, active |-> <<>>, picked |-> <<>>] : s \in BottleLists}
    \cup {[kind |-> "dict", list |-> <<>>, active |-> f[1], picked |-> f[2]] :
             f \in {g \in BottleLists \X BottleLists : Range(g[1]) \cap Range(g[2]) = {}}}
    \cup {[kind |-> "other", list |-> <<>>, active |-> <<>>, picked |-> <<>>]}

\* The file _ensure_data_file has just created: the active/picked format.
MigrateInit ==
    /\ fileKind = "dict"
    /\ oldList = <<>>
    /\ migrated = 0
    /\ original = [kind |-> "dict", list |-> <<>>]

\* _migrate_data that starts the new format from empty lists.
_migrate_data_reset ==
    IF fileKind = "list"
    THEN /\ active' = <<>>
         /\ picked' = <<>>
         /\ fileKind' = "dict"
         /\ oldList' = <<>>
    ELSE UNCHANGED <<active, picked, fileKind, oldList>>

\* _migrate_data: a file holding a list is rewritten as {"active": the list,
\* "picked": []}; any other file is left as it is.
_migrate_data ==
    IF fileKind = "list"
    THEN /\ active' = oldList
         /\ picked' = <<>>
         /\ fileKind' = "dict"
         /\ oldList' = <<>>
    ELSE UNCHANGED <<active, picked, fileKind, oldList>>

\* ----------------------------------------------------------- specifications
Init ==
    /\ StoreInit /\ TrackerInit /\ CloudInit /\ SyncInit /\ CoInit /\ RetryInit /\ ApiInit
    /\ MigrateInit

\* The same start, under each of the sync settings.
InitSync ==
    /\ config \in SyncConfigs
    /\ active = <<>> /\ picked = <<>> /\ now = 0 /\ reply = NoReply
    /\ created = {} /\ assigned = <<>> /\ request = <<>> /\ returned = <<>> /\ asked = <<>>
    /\ TrackerInit /\ CloudInit /\ SyncInit /\ CoInit /\ RetryInit /\ ApiInit /\ MigrateInit

\* The local store under its commands.
Throw ==
    /\ \E m \in Messages, t \in now..Min(now + 1, MaxTime) :
           throw_bottle(m.content, m.images, m.user, t)
    /\ UNCHANGED <<trackerVars, cloudVars, syncVars, coVars, retryVars, apiVars, migrateVars>>

Pick ==
    /\ \E i \in 1..MaxBottles : pick_bottle(i)
    /\ UNCHANGED <<trackerVars, cloudVars, syncVars, coVars, retryVars, apiVars, migrateVars>>

ViewPicked ==
    /\ \E bottle_id \in {<<>>} \cup {<<n>> : n \in 1..MaxBottles}, i \in 1..MaxBottles :
           picked_bottle(bottle_id, i)
    /\ UNCHANGED <<trackerVars, cloudVars, syncVars, coVars, retryVars, apiVars, migrateVars>>

Count == bottle_count /\ UNCHANGED <<trackerVars, cloudVars, syncVars, coVars, retryVars, apiVars, migrateVars>>

ListPicked ==
    /\ list_picked_bottles
    /\ UNCHANGED <<trackerVars, cloudVars, syncVars, coVars, retryVars, apiVars, migrateVars>>

Next == Throw \/ Pick \/ ViewPicked \/ Count \/ ListPicked

Spec == Init /\ [][Next]_vars

\* The tracker under its operations, the file always readable.
Mark == DoMark(FALSE) /\ UNCHANGED <<storeVars, cloudVars, syncVars, coVars, retryVars, apiVars, migrateVars>>

IsUploaded ==
    /\ DoIsUploaded(FALSE)
    /\ UNCHANGED <<storeVars, cloudVars, syncVars, coVars, retryVars, apiVars, migrateVars>>

LastUploadTime ==
    /\ DoLastUploadTime(FALSE)
    /\ UNCHANGED <<storeVars, cloudVars, syncVars, coVars, retryVars, apiVars, migrateVars>>

UploadedCount ==
    /\ DoUploadedCount(FALSE)
    /\ UNCHANGED <<storeVars, cloudVars, syncVars, coVars, retryVars, apiVars, migrateVars>>

TrackerNext == Mark \/ IsUploaded \/ LastUploadTime \/ UploadedCount

SpecTracker == Init /\ [][TrackerNext]_vars

\* The tracker when a read of its file may fail (_load_data's except branch).
FaultyMark ==
    /\ DoMark(TRUE)
    /\ UNCHANGED <<storeVars, cloudVars, syncVars, coVars, retryVars, apiVars, migrateVars>>

FaultyIsUploaded ==
    /\ DoIsUploaded(TRUE)
    /\ UNCHANGED <<storeVars, cloudVars, syncVars, coVars, retryVars, apiVars, migrateVars>>

FaultyLastUploadTime ==
    DoLastUploadTime(TRUE) /\ UNCHANGED <<storeVars, cloudVars, syncVars, coVars, retryVars, apiVars, migrateVars>>

FaultyUploadedCount ==
    DoUploadedCount(TRUE) /\ UNCHANGED <<storeVars, cloudVars, syncVars, coVars, retryVars, apiVars, migrateVars>>

TrackerFaultNext ==
    FaultyMark \/ FaultyIsUploaded \/ FaultyLastUploadTime \/ FaultyUploadedCount

SpecTrackerFault == Init /\ [][TrackerFaultNext]_vars

\* The cloud client, one request or response per step.
CloudAddStart ==
    /\ AddStart
    /\ UNCHANGED <<storeVars, now, trackerVars, syncVars, coVars, retryVars, apiVars, migrateVars>>

CloudAddResponse ==
    /\ AddResponse
    /\ UNCHANGED <<storeVars, now, trackerVars, syncVars, coVars, retryVars, apiVars, migrateVars>>

CloudPickStart ==
    /\ PickStart
    /\ UNCHANGED <<storeVars, now, trackerVars, syncVars, coVars, retryVars, apiVars, migrateVars>>

CloudPickResponse ==
    /\ PickResponse
    /\ UNCHANGED <<storeVars, now, trackerVars, syncVars, coVars, retryVars, apiVars, migrateVars>>

CloudCountStart ==
    /\ CountStart
    /\ UNCHANGED <<storeVars, now, trackerVars, syncVars, coVars, retryVars, apiVars, migrateVars>>

CloudCountResponse ==
    /\ CountResponse
    /\ UNCHANGED <<storeVars, now, trackerVars, syncVars, coVars, retryVars, apiVars, migrateVars>>

CloudClose ==
    /\ Close
    /\ UNCHANGED <<storeVars, now, trackerVars, syncVars, coVars, retryVars, apiVars, migrateVars>>

CloudNext ==
    \/ CloudAddStart \/ CloudAddResponse
    \/ CloudPickStart \/ CloudPickResponse
    \/ CloudCountStart \/ CloudCountResponse
    \/ CloudClose

SpecCloud == Init /\ [][CloudNext]_vars

\* The sync task next to the store's writers.  The responses to a push carry
\* no rate-limit headers, and the clock stands still.
PushResponses ==
    {r \in Responses : r.headers = [remaining |-> <<>>, reset |-> <<>>]}

SyncThrow ==
    /\ Len(active) + Len(picked) < MaxSyncBottles
    /\ throw_bottle("ab", <<>>, [name |-> "alice", id |-> "u1"], now)
    /\ UNCHANGED <<trackerVars, cloudVars, syncVars, coVars, retryVars, apiVars, migrateVars>>

SyncPick ==
    /\ \E i \in 1..MaxBottles : pick_bottle(i)
    /\ UNCHANGED <<trackerVars, cloudVars, syncVars, coVars, retryVars, apiVars, migrateVars>>

SyncCycle ==
    /\ sync_cycle
    /\ UNCHANGED <<storeVars, now, trackerVars, cloudVars, coVars, retryVars, apiVars, migrateVars>>

SyncPush ==
    /\ \E response \in PushResponses : sync_push(response, now)
    /\ UNCHANGED <<storeVars, trackerRet, cloudPc, reqLog, respLog, cloudRet, sessionVars, coVars, retryVars, apiVars, migrateVars>>

SyncNext == SyncThrow \/ SyncPick \/ SyncCycle \/ SyncPush

\* The task is rescheduled for ever: a cycle that can start does start, and a
\* push that is due is made.
SpecSync == InitSync /\ [][SyncNext]_vars /\ WF_vars(SyncCycle) /\ WF_vars(SyncPush)

\* throw_bottle coroutines of several users on one event loop, next to picks.
CoThrowStart ==
    /\ \E k \in Tasks, m \in Messages : throw_bottle_start(k, m, now)
    /\ UNCHANGED <<trackerVars, cloudVars, syncVars, retryVars, apiVars, migrateVars>>

CoThrowResume ==
    /\ \E k \in Tasks : throw_bottle_resume(k, now)
    /\ UNCHANGED <<trackerVars, cloudVars, syncVars, retryVars, apiVars, migrateVars>>

CoPick ==
    /\ \E i \in 1..MaxBottles : pick_bottle(i)
    /\ UNCHANGED <<trackerVars, cloudVars, syncVars, coVars, retryVars, apiVars, migrateVars>>

CoNext == CoThrowStart \/ CoThrowResume \/ CoPick

SpecCo == Init /\ [][CoNext]_vars

\* _make_request: calls, attempts and the sleeps between them.
MakeRequestCall ==
    /\ mr.pc \in {"idle", "returned", "raised"}
    /\ mr' = _make_request_call
    /\ UNCHANGED <<storeVars, now, trackerVars, cloudVars, syncVars, coVars, apiVars, migrateVars>>

MakeRequestAttempt ==
    /\ mr.pc = "try"
    /\ \E outcome \in Outcomes : mr' = _make_request(mr, outcome)
    /\ UNCHANGED <<storeVars, now, trackerVars, cloudVars, syncVars, coVars, apiVars, migrateVars>>

MakeRequestWake ==
    /\ mr.pc = "sleep"
    /\ mr' = _make_request_wake(mr)
    /\ UNCHANGED <<storeVars, now, trackerVars, cloudVars, syncVars, coVars, apiVars, migrateVars>>

RetryNext == MakeRequestCall \/ MakeRequestAttempt \/ MakeRequestWake

\* Every attempt ends (the session carries a timeout) and every sleep ends.
SpecRetry ==
    Init /\ [][RetryNext]_vars /\ WF_vars(MakeRequestAttempt) /\ WF_vars(MakeRequestWake)

\* BottleStorage under the calls of its users.
ApiPick ==
    /\ \E sender_id \in Senders, r \in PickReplies :
           /\ Len(userList[sender_id]) < MaxPicked
           /\ BottleStorage_pick_random_bottle(sender_id, r)
    /\ UNCHANGED <<storeVars, now, trackerVars, cloudVars, syncVars, coVars, retryVars, migrateVars>>

ApiAdd ==
    /\ \E sender_id \in Senders, r \in AddReplies :
           BottleStorage_add_bottle(sender_id, r)
    /\ UNCHANGED <<storeVars, now, trackerVars, cloudVars, syncVars, coVars, retryVars, migrateVars>>

ApiGetPicked ==
    /\ \E sender_id \in Senders, bottle_id \in {<<>>, <<1>>, <<2>>}, i \in 1..MaxPicked :
           BottleStorage_get_picked_bottle(sender_id, bottle_id, i)
    /\ UNCHANGED <<storeVars, now, trackerVars, cloudVars, syncVars, coVars, retryVars, migrateVars>>

ApiCounts ==
    /\ \E sender_id \in Senders, r \in CountReplies :
           BottleStorage_get_bottle_counts(sender_id, r)
    /\ UNCHANGED <<storeVars, now, trackerVars, cloudVars, syncVars, coVars, retryVars, migrateVars>>

ApiListPicked ==
    /\ \E sender_id \in Senders : BottleStorage_get_picked_bottles(sender_id)
    /\ UNCHANGED <<storeVars, now, trackerVars, cloudVars, syncVars, coVars, retryVars, migrateVars>>

ApiNext == ApiAdd \/ ApiPick \/ ApiGetPicked \/ ApiCounts \/ ApiListPicked

SpecApi == Init /\ [][ApiNext]_vars

\* get_session and close() called by the tasks of one event loop.
SessionGet ==
    /\ \E k \in Tasks : get_session(k)
    /\ UNCHANGED <<cloudPc, reqLog, respLog, cloudRet, rateLimit>>
    /\ UNCHANGED <<storeVars, now, trackerVars, syncVars, coVars, retryVars, apiVars, migrateVars>>

SessionClose ==
    /\ close
    /\ UNCHANGED <<cloudPc, reqLog, respLog, cloudRet, rateLimit>>
    /\ UNCHANGED <<storeVars, now, trackerVars, syncVars, coVars, retryVars, apiVars, migrateVars>>

SessionNext == SessionGet \/ SessionClose

SpecSession == Init /\ [][SessionNext]_vars

\* The plugin is constructed over an existing data file, once and again.
InitMigrate ==
    /\ \E f \in DataFiles :
           /\ fileKind = f.kind
           /\ oldList = f.list
           /\ active = f.active
           /\ picked = f.picked
           /\ original = [kind |-> f.kind, list |-> f.list]
    /\ migrated = 0
    /\ config \in StoreConfigs
    /\ now = 0 /\ reply = NoReply /\ created = {} /\ assigned = <<>>
    /\ request = <<>> /\ returned = <<>> /\ asked = <<>>
    /\ TrackerInit /\ CloudInit /\ SyncInit /\ CoInit /\ RetryInit /\ ApiInit

Migrate ==
    /\ migrated < MaxMigrations
    /\ _migrate_data
    /\ migrated' = migrated + 1
    /\ UNCHANGED <<config, reply, created, assigned, request, returned, asked, original>>
    /\ UNCHANGED <<now, trackerVars, cloudVars, syncVars, coVars, retryVars, apiVars>>

MigrateNext == Migrate

SpecMigrate == InitMigrate /\ [][MigrateNext]_vars

\* ------------------------------------------------------------------ claims
Store == active \o picked

Ids(s) == {s[i].id : i \in DOMAIN s}

Largest(S) == CHOOSE m \in S : \A x \in S : m >= x

Uploaded == Range(trackerFile.uploaded_ids)

C2_MaxPlusOne ==
    [][ (Len(active') = Len(active) + 1)
        => active'[Len(active')].id =
             IF active = <<>> /\ picked = <<>> THEN 1
             ELSE 1 + Largest(Ids(active) \cup Ids(picked)) ]_vars

\* A throw was accepted while the largest id sat in the picked list.
C2_Witness ==
    /\ reply.op = "throw" /\ reply.kind = "ok"
    /\ active # <<>> /\ picked # <<>>
    /\ reply.bottles[1].id = 1 + Largest(Ids(picked))
    /\ Len(active) >= 2

C5_UploadedIsMonotonic == \A id \in marked : is_uploaded(id, TRUE)

IsPush == syncPc = "push" /\ batch' # batch

C8_FailuresTolerated ==
    /\ [][ (IsPush /\ failures' = failures + 1)
           => /\ trackerFile' = trackerFile
              /\ syncPc' \in {"sleep", "push"}
              /\ Head(batch).id \in {Unuploaded[i].id : i \in DOMAIN Unuploaded}' ]_vars
    /\ \A id \in TrackerIds :
          (is_cloud_sync_enabled /\ id \in Ids(Store)) ~> (id \in Uploaded)

\* Every failure the network had in store happened, and all bottles are up.
C8_Witness ==
    /\ failures = MaxFailures
    /\ Len(Store) = MaxSyncBottles
    /\ Ids(Store) = Uploaded

\* C9: a finished cloud call in which a request failed with a network error
\* sent that request again afterwards.
C9_RetryBeforeFailure ==
    (cloudPc = "idle")
    => \A i \in DOMAIN respLog :
          respLog[i].status = 0
          => \E j \in DOMAIN reqLog : j > i /\ reqLog[j] = reqLog[i]

IsAddOrPick == reqLog # <<>> /\ reqLog[1] # RequestOf("count_get")

IsPickCall == reqLog # <<>> /\ reqLog[1] = RequestOf("pick_get")

\* C11: pick_random_bottle sends at most three requests; the second one is the
\* reset and goes out only after the first pick answered 404; the third one is
\* a pick and goes out only after the reset answered 200.  A returned bottle
\* carries is_reset = TRUE exactly when it came from the third request, and a
\* reset or second pick answered with a status other than 200, 403 and 429
\* makes the call return None.
C11_SingleResetRetry ==
    IsPickCall =>
        /\ Len(reqLog) <= 3
        /\ Len(reqLog) >= 2 =>
              /\ reqLog[2] = RequestOf("pick_reset")
              /\ respLog[1].status = 404
        /\ Len(reqLog) = 3 =>
              /\ reqLog[3] = RequestOf("pick_retry")
              /\ respLog[2].status = 200
        /\ cloudRet.kind = "bottle" => (cloudRet.is_reset <=> Len(respLog) = 3)
        /\ cloudRet.kind # "bottle" => ~cloudRet.is_reset
        /\ ( /\ cloudPc = "idle"
             /\ Len(respLog) \in {2, 3}
             /\ respLog[Len(respLog)].status \in {404, 500} )
           => cloudRet.kind = "none"

\* A pick that found the sea empty, reset it and got a bottle on the second try.
C11_Witness ==
    /\ IsPickCall
    /\ cloudPc = "idle"
    /\ Len(reqLog) = 3
    /\ cloudRet.kind = "bottle"
    /\ cloudRet.is_reset

\* The message of the throw_bottle command respects both configured limits.
WithinLimits(req) ==
    /\ Len(req.content) <= _get_config_value("max_text_length", DefaultMaxTextLength)
    /\ Len(req.images) <= _get_config_value("max_images", DefaultMaxImages)

\* C12: a throw_bottle command is accepted exactly when its text is at most
\* max_text_length characters and it carries at most max_images images, the
\* limits included; an accepted command appends a bottle with that text, a
\* refused one replies with an error and leaves both lists as they were.
C12_LimitsBeforeWrite ==
    [][ request' # <<>> =>
          LET req == request'[1]
          IN  /\ (reply'.kind = "ok") <=> WithinLimits(req)
              /\ WithinLimits(req) =>
                    /\ Len(active') = Len(active) + 1
                    /\ active'[Len(active')].content = req.content
                    /\ reply'.bottles = <<active'[Len(active')]>>
              /\ ~WithinLimits(req) =>
                    /\ reply'.kind \in {"text_too_long", "too_many_images"}
                    /\ reply'.bottles = <<>>
                    /\ active' = active
                    /\ picked' = picked ]_vars

\* A text of exactly max_text_length characters was accepted and is the text
\* of the newest active bottle.
C12_Witness ==
    /\ request # <<>>
    /\ reply.op = "throw"
    /\ reply.kind = "ok"
    /\ Len(request[1].content) = _get_config_value("max_text_length", DefaultMaxTextLength)
    /\ active # <<>>
    /\ active[Len(active)].content = request[1].content

\* C13: no bottle id is in the active list and in the picked list at once.
C13_ActivePickedDisjoint == Ids(active) \cap Ids(picked) = {}

\* Bottles on both sides: some picked, some still afloat.
C13_Witness == active # <<>> /\ picked # <<>> /\ returned # <<>>

C15_PickFromActiveOnce ==
    [][ (reply'.op = "pick" /\ reply'.kind = "ok") =>
          /\ reply'.bottles[1] \in Range(active)
          /\ reply'.bottles[1].id \notin Range(returned)
          /\ returned' = Append(returned, reply'.bottles[1].id) ]_vars

\* A second bottle was delivered while another one stayed active.
C15_Witness ==
    /\ reply.op = "pick"
    /\ reply.kind = "ok"
    /\ Len(returned) = 2
    /\ active # <<>>

\* C16: pick_bottle on an empty active list replies that there are no
\* bottles, delivers none and leaves both lists as they were.
C16_EmptyPickIsNoOp ==
    [][ (reply'.op = "pick" /\ active = <<>>) =>
          /\ reply'.kind = "empty"
          /\ reply'.bottles = <<>>
          /\ active' = <<>>
          /\ picked' = picked
          /\ returned' = returned ]_vars

\* A pick that found nothing after every bottle had been picked.
C16_Witness ==
    /\ reply = Reply("pick", "empty", <<>>)
    /\ active = <<>>
    /\ picked # <<>>

\* C17: throw_bottle coroutines of one event loop never sit between loading
\* the store and saving it, so every id is assigned once and every bottle an
\* accepted command stored is still in the store.
C17_ThrowSectionAtomic ==
    /\ \A k \in Tasks : coro[k].pc # "loaded"
    /\ \A i, j \in DOMAIN assigned : i # j => assigned[i] # assigned[j]
    /\ Len(Store) = Len(assigned)
    /\ \A b \in created : b \in Range(Store)

\* Two throw_bottle coroutines alive at once, each having stored its bottle.
C17_Witness ==
    /\ \A k \in Tasks : coro[k].pc = "yielded" /\ coro[k].new_id # <<>>
    /\ coro[1].new_id # coro[2].new_id
    /\ {coro[1].new_id[1], coro[2].new_id[1]} \subseteq Ids(Store)

\* C18: _make_request makes at most max_retries attempts; only the last
\* attempt of a call can be a success, and its response is what the call
\* returns; the call raises only after max_retries failed attempts, and then
\* the exception of the last one; every call returns or raises in the end.
C18_BoundedRetry ==
    /\ [] ( /\ Len(mr.attempts) <= max_retries
            /\ \A i \in 1..(Len(mr.attempts) - 1) : ~mr.attempts[i].ok
            /\ mr.pc \in {"try", "sleep"} =>
                  /\ Len(mr.attempts) < max_retries
                  /\ \A i \in DOMAIN mr.attempts : ~mr.attempts[i].ok
            /\ mr.pc = "returned" =>
                  /\ mr.attempts[Len(mr.attempts)].ok
                  /\ mr.result = <<mr.attempts[Len(mr.attempts)]>>
            /\ mr.pc = "raised" =>
                  /\ Len(mr.attempts) = max_retries
                  /\ \A i \in DOMAIN mr.attempts : ~mr.attempts[i].ok
                  /\ mr.result = <<mr.attempts[max_retries]>> )
    /\ (mr.pc \in {"try", "sleep"}) ~> (mr.pc \in {"returned", "raised"})

\* Three attempts failed, the last one differently from the first, and the
\* call raised the last exception.
C18_Witness ==
    /\ mr.pc = "raised"
    /\ Len(mr.attempts) = max_retries
    /\ mr.attempts[1].exc # mr.attempts[max_retries].exc
    /\ mr.result[1].exc = mr.attempts[max_retries].exc

\* C19: pick_random_bottle ends in one of three ways: a bottle, appended once
\* to the caller's own list and returned; {} on HTTP 404; None on any other
\* failure; and only the first changes user_list.  So every sender's list is
\* exactly what that sender's successful picks returned, in order, and the
\* picked count of get_bottle_counts is the number of those picks.
C19_PickOutcomes ==
    /\ \A u \in Senders : userList[u] = pickedBy[u]
    /\ apiRet.op = "pick" =>
          LET r == apiRet.api[1]
          IN  /\ apiRet.kind \in {"bottle", "empty", "none"}
              /\ apiRet.kind = "bottle" =>
                    /\ r.kind = "json"
                    /\ apiRet.bottles = <<r.body>>
              /\ apiRet.kind = "empty" <=> (r.kind = "status" /\ r.status = 404)
    /\ apiRet.op = "counts" => apiRet.counts[2] = Len(pickedBy[apiRet.sender_id])

\* C20: get_picked_bottle and get_picked_bottles of a sender give back only
\* bottles that successful picks of that sender returned; asked for an id,
\* get_picked_bottle gives the sender's bottle of that id, or None when the
\* sender has picked none of that id.
C20_OwnPickedOnly ==
    apiRet.op \in {"get_picked_bottle", "get_picked_bottles"} =>
        LET own == Range(pickedBy[apiRet.sender_id])
        IN  /\ apiRet.kind \in {"bottle", "none", "list"}
            /\ \A b \in Range(apiRet.bottles) : b \in own
            /\ (apiRet.op = "get_picked_bottle" /\ apiRet.bottle_id # <<>>) =>
                  IF \E b \in own : b.bottle_id = apiRet.bottle_id[1]
                  THEN /\ apiRet.kind = "bottle"
                       /\ apiRet.bottles[1].bottle_id = apiRet.bottle_id[1]
                  ELSE apiRet.kind = "none"
            /\ apiRet.op = "get_picked_bottles" =>
                  /\ apiRet.kind = "list"
                  /\ Len(apiRet.bottles) = Len(pickedBy[apiRet.sender_id])
                  /\ Range(apiRet.bottles) = own

\* C21: add_bottle always returns an integer, never raises: the bottle_id of
\* the API's answer when the answer is an object holding one, -1 after an
\* error status, a lost connection or an answer without bottle_id; and no
\* call of add_bottle changes user_list.
C21_AddNeverRaises ==
    /\ [] ( apiRet.op = "add" =>
              LET r == apiRet.api[1]
              IN  /\ apiRet.kind = "int"
                  /\ apiRet.counts =
                        IF r.kind = "json" /\ r.body.kind = "object"
                        THEN <<r.body.bottle_id>>
                        ELSE <<-1>> )
    /\ [][apiRet'.op = "add" => userList' = userList]_vars

\* add_bottle returned -1 for an answer without bottle_id while a sender's
\* list held a picked bottle.
C21_Witness ==
    /\ apiRet.op = "add"
    /\ apiRet.api[1].kind = "json"
    /\ apiRet.api[1].body = JsonNoId
    /\ apiRet.counts = <<-1>>
    /\ userList[apiRet.sender_id] # <<>>

\* C22: picked_bottle, bottle_count and list_picked_bottles leave both lists
\* as they were; picked_bottle asked for an id delivers the picked bottle of
\* that id when there is one and no bottle otherwise, so never a bottle that
\* is still active; whatever picked_bottle delivers is in the picked list.
C22_QueriesReadOnly ==
    [][ /\ reply'.op \in {"picked", "count", "list"} =>
              /\ active' = active
              /\ picked' = picked
        /\ (reply'.op = "picked" /\ reply'.kind = "ok") =>
              /\ reply'.bottles[1] \in Range(picked)
              /\ reply'.bottles[1].id \notin Ids(active)
        /\ (reply'.op = "picked" /\ asked' # <<>> /\ asked'[1] # <<>>) =>
              IF asked'[1][1] \in Ids(picked)
              THEN /\ reply'.kind = "ok"
                   /\ reply'.bottles[1].id = asked'[1][1]
              ELSE /\ reply'.kind \in {"none_picked", "not_found"}
                   /\ reply'.bottles = <<>> ]_vars

\* picked_bottle was asked for the id of a bottle that is still active, next
\* to a picked one, and found nothing.
C22_Witness ==
    /\ reply.op = "picked"
    /\ reply.kind = "not_found"
    /\ picked # <<>>
    /\ asked # <<>>
    /\ asked[1] # <<>>
    /\ asked[1][1] \in Ids(active)

\* C23: whatever the interleaving of get_session callers and close(), a
\* caller that finds an open session gets that very session, and the session
\* a caller gets is not closed at the moment it is returned (so a session is
\* created only while none is open, and the next caller finds it open).
C23_OneOpenSession ==
    \A k \in Tasks :
        callers[k] # <<>> =>
            /\ ~callers[k][1].closed
            /\ callers[k][1].open => callers[k][1].returned = callers[k][1].found

\* C24: a run of _migrate_data turns a file in the old list format into the
\* active/picked format with the same bottles in the same order as active
\* and nothing picked, and leaves every other file as it is; so a run after
\* the first changes nothing, and _load_bottles then reads the old bottles.
C24_MigrationLossless ==
    /\ [][ migrated' = migrated + 1 =>
             /\ fileKind = "list" =>
                   /\ fileKind' = "dict"
                   /\ active' = oldList
                   /\ picked' = <<>>
             /\ fileKind # "list" =>
                   /\ fileKind' = fileKind
                   /\ active' = active
                   /\ picked' = picked
             /\ migrated >= 1 =>
                   /\ fileKind' = fileKind
                   /\ active' = active
                   /\ picked' = picked ]_vars
    /\ [] ( (migrated >= 1 /\ original.kind = "list") =>
              _load_bottles(fileKind = "dict") =
                  [active |-> original.list, picked |-> <<>>] )

\* An old file of two bottles after two runs of _migrate_data.
C24_Witness ==
    /\ migrated = 2
    /\ original.kind = "list"
    /\ Len(original.list) = 2
    /\ fileKind = "dict"
    /\ active = original.list
    /\ picked = <<>>

====
